---- MODULE Spec2Model ----
(***************************************************************************)
(* Model of jasmin_homedir_manager: one run of                             *)
(* TrainingCleanupCommand.execute() against the accounts portal (remote    *)
(* state), the home-directory filesystem and the operator's terminal.      *)
(***************************************************************************)
EXTENDS Integers, Sequences, FiniteSets, TLC

VARIABLES
    dry_run,        \* BaseCommand.dry_run
    careful,        \* BaseCommand.careful
    api_users,      \* portal: the body the users endpoint answers with
    api_detail,     \* portal: the body each user's url answers with
    lifecycle,      \* portal: lifecycle_state of each listed account
    fs,             \* filesystem: path -> "dir" | "file"
    fs0,            \* the filesystem as it was when the run started
    pc,             \* position of execute()
    users,          \* response.json() of the list request
    idx,            \* position of the for loop in users (1-based)
    user_detailed,  \* response.json() of the detail request
    log,            \* every external call and every line of output, in order
    client,         \* BaseCommand.client
    calls,          \* calls of get_authenticated_client so far
    typed_text      \* the line typed at the prompt of this iteration

vars == <<dry_run, careful, api_users, api_detail, lifecycle, fs, fs0,
          pc, users, idx, user_detailed, log, client, calls, typed_text>>

(***************************************************************************)
(* Bounds                                                                  *)
(***************************************************************************)
MaxCandidates == 2

\* calls of get_authenticated_client made on one command object
MaxClientCalls == 3

\* invocations of the command, one after the other
MaxRuns == 2

(***************************************************************************)
(* Strings.  TLC strings are opaque, so the characters of the usernames    *)
(* the portal may answer with are tabulated.                               *)
(***************************************************************************)
Usernames == {"train001", "train002", "regularuser"}

Chars(s) ==
    CASE s = "train001"    -> <<"t","r","a","i","n","0","0","1">>
      [] s = "train002"    -> <<"t","r","a","i","n","0","0","2">>
      [] s = "regularuser" -> <<"r","e","g","u","l","a","r","u","s","e","r">>
      [] s = "train"       -> <<"t","r","a","i","n">>
      [] s = "yes"         -> <<"y","e","s">>
      [] s = "YES"         -> <<"Y","E","S">>
      [] s = "skip"        -> <<"s","k","i","p">>
      [] s = "Skip"        -> <<"S","k","i","p">>
      [] s = "abort"       -> <<"a","b","o","r","t">>
      [] s = "ABORT"       -> <<"A","B","O","R","T">>
      [] OTHER             -> <<>>

\* str.lower, on the characters of a string
LowerChar(c) ==
    CASE c = "A" -> "a" [] c = "B" -> "b" [] c = "E" -> "e" [] c = "O" -> "o"
      [] c = "R" -> "r" [] c = "S" -> "s" [] c = "T" -> "t" [] c = "Y" -> "y"
      [] OTHER -> c

lower(cs) == [j \in 1..Len(cs) |-> LowerChar(cs[j])]

\* str.startswith
startswith(s, prefix) ==
    /\ Len(Chars(s)) >= Len(Chars(prefix))
    /\ SubSeq(Chars(s), 1, Len(Chars(prefix))) = Chars(prefix)

(***************************************************************************)
(* Paths.  A path string is the sequence of its "/"-separated segments     *)
(* (a leading "" is the leading slash); a pathlib.Path is "/" followed by  *)
(* its parts.                                                              *)
(***************************************************************************)
IsPart(seg) == seg # "" /\ seg # "."

\* pathlib.Path(str): empty and "." segments are dropped, ".." is kept
Path(raw) ==
    IF raw # <<>> /\ raw[1] = ""
    THEN <<"/">> \o SelectSeq(Tail(raw), IsPart)
    ELSE SelectSeq(raw, IsPart)

\* pathlib.Path.__truediv__ with a single relative segment
Join(p, name) == p \o <<name>>

\* settings.home_dir_folder
home_dir_folder == <<"/", "home", "users">>

IsPrefix(p, q) == Len(p) <= Len(q) /\ SubSeq(q, 1, Len(p)) = p

(***************************************************************************)
(* The portal's answers.                                                   *)
(***************************************************************************)
\* the "url" field of a list record (tests/fixtures: .../api/users/<name>/)
UrlOf(name) == <<"api", "users", name>>

ListRecord(name) == [username |-> name, url |-> UrlOf(name)]

\* homeDirectory strings the directory service may report
RawHome(name)      == <<"", "home", "users", name>>
RawHomeDot(name)   == <<"", "home", "users", ".", name>>
RawElsewhere(name) == <<"", "different", "path", name>>

\* another account's name, for a detail record that disagrees with the list
Other(name) ==
    CASE name = "train001"    -> "train002"
      [] name = "train002"    -> "regularuser"
      [] name = "regularuser" -> "train001"

\* the detail records the portal may hold for the account listed as `name`:
\* the account's own username with any of the reported paths, or another
\* account's username with that account's home or with this one's
DetailChoices(name) ==
    { [username |-> name, homeDirectory |-> hd] :
        hd \in {RawHome(name), RawHomeDot(name), RawElsewhere(name),
                RawHome(Other(name))} }
    \cup
    { [username |-> Other(name), homeDirectory |-> hd] :
        hd \in {RawHome(name), RawHome(Other(name))} }

Range(q) == { q[k] : k \in 1..Len(q) }

\* the sequences of distinct elements of S of length at most n
RECURSIVE InjectiveSeqs(_, _)
InjectiveSeqs(S, n) ==
    IF n = 0 THEN {<<>>}
    ELSE LET shorter == InjectiveSeqs(S, n - 1)
         IN  shorter \cup
             UNION { { Append(q, x) : x \in S \ Range(q) } :
                     q \in { r \in shorter : Len(r) = n - 1 } }

(***************************************************************************)
(* The filesystem.                                                         *)
(***************************************************************************)
\* a home directory as tests create it: the directory and a file in it
HomeTree(name) ==
    { Join(home_dir_folder, name),
      Join(Join(home_dir_folder, name), "test_file.txt") }

\* names whose home path may be taken by a plain file instead of a directory
PlainFileNames == {"train001"}

\* the home-directory root with its reclamation area, the homes of `present`
\* and a plain file where the home of each name of `plain` would be
FsWith(present, plain) ==
    LET paths == {home_dir_folder, Join(home_dir_folder, ".fast-remove")}
                 \cup UNION { HomeTree(n) : n \in present }
                 \cup { Join(home_dir_folder, n) : n \in plain }
    IN  [p \in paths |->
            IF p[Len(p)] = "test_file.txt" \/ p[Len(p)] \in plain
            THEN "file" ELSE "dir"]

\* pathlib.Path.is_dir
is_dir(p) == p \in DOMAIN fs /\ fs[p] = "dir"

Event(op, i, arg) == [op |-> op, i |-> i, arg |-> arg]

NoDetail == [username |-> "", homeDirectory |-> <<>>]

\* `self.client = None`; a constructed client is the id-th OAuth2Client made
\* and holds a token or not
NoClient == [id |-> 0, token |-> FALSE]

Init ==
    /\ dry_run \in BOOLEAN
    /\ careful \in BOOLEAN
    /\ \E names \in InjectiveSeqs(Usernames, MaxCandidates) :
         LET urls == { UrlOf(n) : n \in Range(names) }
         IN  /\ api_users = [k \in 1..Len(names) |-> ListRecord(names[k])]
             /\ api_detail \in
                  { d \in [urls -> UNION { DetailChoices(n) : n \in Range(names) }] :
                      \A n \in Range(names) : d[UrlOf(n)] \in DetailChoices(n) }
             /\ lifecycle = [u \in urls |-> "AWAITING_CLEANUP"]
    /\ \E present \in SUBSET Usernames :
         \E plain \in SUBSET (PlainFileNames \ present) :
            fs = FsWith(present, plain)
    /\ fs0 = fs
    /\ pc = "start"
    /\ users = <<>>
    /\ idx = 0
    /\ user_detailed = NoDetail
    /\ log = <<>>
    /\ client = NoClient
    /\ calls = 0
    /\ typed_text = ""

(***************************************************************************)
(* get_authenticated_client()                                              *)
(***************************************************************************)
\* the method with its test lost: every call makes a new client
ClientIsNone_Always == TRUE

\* `if self.client is None`
ClientIsNone == client = NoClient

\* OAuth2Client objects constructed so far
Constructed(l) == Cardinality({ n \in 1..Len(l) : l[n].op = "OAuth2Client" })

\* fetch_token(self.settings.token_endpoint, grant_type="client_credentials")
TokenRequest == <<"token_endpoint", "grant_type=client_credentials">>

\* one call; `fetched` tells whether fetch_token returns or raises.
\* self.client is assigned before fetch_token is called.
get_authenticated_client(fetched) ==
    /\ calls' = calls + 1
    /\ IF ClientIsNone
       THEN /\ client' = [id |-> Constructed(log) + 1, token |-> fetched]
            /\ log' = log \o <<Event("OAuth2Client", 0, <<>>)>>
                          \o (IF fetched
                              THEN <<Event("fetch_token", 0, TokenRequest),
                                     Event("log_authenticated", 0, <<>>)>>
                              ELSE <<Event("fetch_token_raised", 0,
                                           TokenRequest)>>)
       ELSE /\ fetched
            /\ UNCHANGED <<client, log>>

\* the call raises instead of returning self.client
ClientCallRaises(fetched) == ClientIsNone /\ ~fetched

(***************************************************************************)
(* execute()                                                               *)
(***************************************************************************)
\* the locals of one loop iteration
user == users[idx]
home_directory == Path(user_detailed.homeDirectory)
home_directory_constructed == Join(home_dir_folder, user_detailed.username)

\* a loop that does not advance: the same list record is taken up again
NextIteration_Repeats ==
    /\ idx' = idx
    /\ user_detailed' = NoDetail
    /\ pc' = "loop"

\* `for user in response.json()` moves on to the next list record
NextIteration ==
    /\ idx' = idx + 1
    /\ user_detailed' = NoDetail
    /\ pc' = "loop"

\* `client = self.get_authenticated_client()`
GetClient ==
    /\ pc = "start"
    /\ \E fetched \in BOOLEAN :
         /\ get_authenticated_client(fetched)
         /\ pc' = IF ClientCallRaises(fetched) THEN "raised" ELSE "list"
    /\ UNCHANGED <<typed_text, dry_run, careful, api_users, api_detail,
                   lifecycle, fs, fs0, users, idx, user_detailed>>

\* the query of the list request
ListParams == <<"user_type=TRAINING", "lifecycle_state=AWAITING_CLEANUP",
                "is_active=false">>

\* client.get(users endpoint, params=...) and response.json()
ListUsers ==
    /\ pc = "list"
    /\ users' = api_users
    /\ idx' = 1
    /\ pc' = "loop"
    /\ log' = Append(log, Event("get_list", 0, ListParams))
    /\ UNCHANGED <<client, calls, typed_text, dry_run, careful, api_users,
                   api_detail, lifecycle, fs, fs0, user_detailed>>

\* the for loop is exhausted: execute() returns
Finish ==
    /\ pc = "loop"
    /\ idx > Len(users)
    /\ pc' = "done"
    /\ typed_text' = ""
    /\ UNCHANGED <<client, calls, dry_run, careful, api_users, api_detail,
                   lifecycle, fs, fs0, users, idx, user_detailed, log>>

\* client.get(user["url"]) and response.json()
FetchDetail ==
    /\ pc = "loop"
    /\ idx <= Len(users)
    /\ user_detailed' = api_detail[user.url]
    /\ pc' = "check"
    /\ log' = Append(log, Event("get_detail", idx, user.url))
    /\ typed_text' = ""
    /\ UNCHANGED <<client, calls, dry_run, careful, api_users, api_detail,
                   lifecycle, fs, fs0, users, idx>>

\* the first three branches of the if/elif chain
CheckNotTraining_DetailName == ~startswith(user_detailed.username, "train")

CheckNotTraining == ~startswith(user.username, "train")

\* the second branch lost: the reported path is not compared
CheckPathMismatch_Lost == FALSE

CheckPathMismatch == home_directory # home_directory_constructed

CheckNotDirectory_Exists == home_directory \notin DOMAIN fs

CheckNotDirectory == ~is_dir(home_directory)

\* the chain with `break` where the first branch should move on: a record
\* that is not a training account ends the loop
Check_StopsAtNotTraining ==
    /\ pc = "check"
    /\ IF CheckNotTraining
       THEN /\ log' = Append(log, Event("log_not_training", idx, <<user.username>>))
            /\ idx' = Len(users) + 1
            /\ user_detailed' = NoDetail
            /\ pc' = "loop"
       ELSE IF CheckPathMismatch
       THEN /\ log' = Append(log, Event("log_path_mismatch", idx, <<user.username>>))
            /\ NextIteration
       ELSE IF CheckNotDirectory
       THEN /\ log' = Append(log, Event("log_not_directory", idx, <<user.username>>))
            /\ NextIteration
       ELSE /\ pc' = "confirm"
            /\ UNCHANGED <<idx, user_detailed, log>>
    /\ UNCHANGED <<client, calls, typed_text, dry_run, careful, api_users,
                   api_detail, lifecycle, fs, fs0, users>>

\* the chain with its first two branches swapped
Check_PathFirst ==
    /\ pc = "check"
    /\ IF CheckPathMismatch
       THEN /\ log' = Append(log, Event("log_path_mismatch", idx, <<user.username>>))
            /\ NextIteration
       ELSE IF CheckNotTraining
       THEN /\ log' = Append(log, Event("log_not_training", idx, <<user.username>>))
            /\ NextIteration
       ELSE IF CheckNotDirectory
       THEN /\ log' = Append(log, Event("log_not_directory", idx, <<user.username>>))
            /\ NextIteration
       ELSE /\ pc' = "confirm"
            /\ UNCHANGED <<idx, user_detailed, log>>
    /\ UNCHANGED <<client, calls, typed_text, dry_run, careful, api_users,
                   api_detail, lifecycle, fs, fs0, users>>

Check ==
    /\ pc = "check"
    /\ IF CheckNotTraining
       THEN /\ log' = Append(log, Event("log_not_training", idx, <<user.username>>))
            /\ NextIteration
       ELSE IF CheckPathMismatch
       THEN /\ log' = Append(log, Event("log_path_mismatch", idx, <<user.username>>))
            /\ NextIteration
       ELSE IF CheckNotDirectory
       THEN /\ log' = Append(log, Event("log_not_directory", idx, <<user.username>>))
            /\ NextIteration
       ELSE /\ pc' = "confirm"
            /\ UNCHANGED <<idx, user_detailed, log>>
    /\ UNCHANGED <<client, calls, typed_text, dry_run, careful, api_users,
                   api_detail, lifecycle, fs, fs0, users>>

\* what the operator may type at the prompt; click.Choice rejects anything else
\* and click.prompt asks again
Typed == {"yes", "YES", "skip", "Skip", "abort", "ABORT"}

\* click.Choice(["yes", "skip", "abort"], ...)
Choices == {"yes", "skip", "abort"}

\* the Choice with case_sensitive left at its default: only the exact
\* spelling matches
ChoiceConvert_CaseSensitive(typed) ==
    IF typed \in Choices THEN typed ELSE ""

\* click.Choice(..., case_sensitive=False).convert: the choice the typed text
\* matches when both are lower-cased
ChoiceConvert(typed) ==
    CHOOSE c \in Choices : lower(Chars(c)) = lower(Chars(typed))

\* the four click.echo lines and the click.prompt of confirm_user_cleanup
\* (the prompt is logged with the choice it returned)
PromptEvents(confirmation) ==
    <<Event("echo_user", idx, <<user.username>>),
      Event("echo_home", idx, home_directory),
      Event("prompt", idx, <<confirmation>>)>>

\* the gate with its `if not careful` test lost: it prompts all the same
ConfirmNotCareful_Prompts ==
    /\ pc = "confirm"
    /\ ~careful
    /\ \E typed \in {"yes", "YES"} :
         log' = log \o PromptEvents(ChoiceConvert(typed))
    /\ pc' = "main"
    /\ UNCHANGED <<client, calls, typed_text, dry_run, careful, api_users,
                   api_detail, lifecycle, fs, fs0, users, idx, user_detailed>>

\* confirm_user_cleanup(user, home_directory, self.careful) when careful is false
ConfirmNotCareful ==
    /\ pc = "confirm"
    /\ ~careful
    /\ pc' = "main"
    /\ UNCHANGED <<client, calls, typed_text, dry_run, careful, api_users,
                   api_detail, lifecycle, fs, fs0, users, idx, user_detailed,
                   log>>

\* the gate with `raise click.Abort()` lost: abort falls through to
\* `return confirmation == "yes"` and is a skip
ConfirmCareful_AbortSkips ==
    /\ pc = "confirm"
    /\ careful
    /\ \E typed \in Typed :
         /\ typed_text' = typed
         /\ LET confirmation == ChoiceConvert(typed)
            IN  IF confirmation = "yes"
                THEN /\ log' = log \o PromptEvents(confirmation)
                     /\ pc' = "main"
                     /\ UNCHANGED <<idx, user_detailed>>
                ELSE /\ log' = log \o PromptEvents(confirmation)
                                 \o <<Event("log_skip", idx, <<user.username>>)>>
                     /\ NextIteration
    /\ UNCHANGED <<client, calls, dry_run, careful, api_users, api_detail,
                   lifecycle, fs, fs0, users>>

\* the gate returning `confirmation != "abort"`: skip proceeds
ConfirmCareful_SkipProceeds ==
    /\ pc = "confirm"
    /\ careful
    /\ \E typed \in Typed :
         /\ typed_text' = typed
         /\ LET confirmation == ChoiceConvert(typed)
            IN  IF confirmation = "abort"
                THEN /\ log' = log \o PromptEvents(confirmation)
                                 \o <<Event("echo_aborted", idx, <<user.username>>)>>
                     /\ pc' = "aborted"
                     /\ UNCHANGED <<idx, user_detailed>>
                ELSE /\ log' = log \o PromptEvents(confirmation)
                     /\ pc' = "main"
                     /\ UNCHANGED <<idx, user_detailed>>
    /\ UNCHANGED <<client, calls, dry_run, careful, api_users, api_detail,
                   lifecycle, fs, fs0, users>>

\* confirm_user_cleanup when careful is true, and the elif branch that uses it
ConfirmCareful ==
    /\ pc = "confirm"
    /\ careful
    /\ \E typed \in Typed :
         /\ typed_text' = typed
         /\ LET confirmation == ChoiceConvert(typed)
            IN  IF confirmation = "abort"
                THEN /\ log' = log \o PromptEvents(confirmation)
                                 \o <<Event("echo_aborted", idx, <<user.username>>)>>
                     /\ pc' = "aborted"
                     /\ UNCHANGED <<idx, user_detailed>>
                ELSE IF confirmation = "yes"
                THEN /\ log' = log \o PromptEvents(confirmation)
                     /\ pc' = "main"
                     /\ UNCHANGED <<idx, user_detailed>>
                ELSE /\ log' = log \o PromptEvents(confirmation)
                                 \o <<Event("log_skip", idx, <<user.username>>)>>
                     /\ NextIteration
    /\ UNCHANGED <<client, calls, dry_run, careful, api_users, api_detail,
                   lifecycle, fs, fs0, users>>

\* the three click.echo lines of the dry-run branch
DryRun ==
    /\ pc = "main"
    /\ dry_run
    /\ log' = log \o
         <<Event("dry_run_move", idx, home_directory),
           Event("dry_run_create", idx, <<user.username>>),
           Event("dry_run_update", idx, <<user.username>>)>>
    /\ NextIteration
    /\ UNCHANGED <<client, calls, typed_text, dry_run, careful, api_users,
                   api_detail, lifecycle, fs, fs0, users>>

\* rmdir in place of rmtree: only the directory entry itself
Subtree_Shallow(p) == {p}

\* the paths below p, p included
Subtree(p) == { q \in DOMAIN fs : IsPrefix(p, q) }

Remove(paths) == [q \in DOMAIN fs \ paths |-> fs[q]]

\* the removal outside the `else` of `if self.dry_run`
Rmtree_IgnoresDryRun ==
    /\ pc = "main"
    /\ fs' = Remove(Subtree(home_directory))
    /\ log' = Append(log, Event("rmtree", idx, home_directory))
    /\ pc' = "helper"
    /\ UNCHANGED <<client, calls, typed_text, dry_run, careful, api_users,
                   api_detail, lifecycle, fs0, users, idx, user_detailed>>

\* the removal followed by the PATCH, the helper call lost
Rmtree_ThenPatch ==
    /\ pc = "main"
    /\ ~dry_run
    /\ fs' = Remove(Subtree(home_directory))
    /\ log' = Append(log, Event("rmtree", idx, home_directory))
    /\ pc' = "patch"
    /\ UNCHANGED <<client, calls, typed_text, dry_run, careful, api_users,
                   api_detail, lifecycle, fs0, users, idx, user_detailed>>

\* shutil.rmtree(home_directory) returns
Rmtree ==
    /\ pc = "main"
    /\ ~dry_run
    /\ fs' = Remove(Subtree(home_directory))
    /\ log' = Append(log, Event("rmtree", idx, home_directory))
    /\ pc' = "helper"
    /\ UNCHANGED <<client, calls, typed_text, dry_run, careful, api_users,
                   api_detail, lifecycle, fs0, users, idx, user_detailed>>

\* subprocess.run(["/usr/sbin/mkhomedir_helper", user["username"]], check=False)
\* returns: the helper made the account's empty home, or exited non-zero
Helper ==
    /\ pc = "helper"
    /\ \E status \in {"zero", "nonzero"} :
         LET home == Join(home_dir_folder, user.username)
         IN  fs' = IF status = "zero" /\ home \notin DOMAIN fs
                   THEN [q \in DOMAIN fs \cup {home} |->
                            IF q = home THEN "dir" ELSE fs[q]]
                   ELSE fs
    /\ log' = Append(log, Event("mkhomedir_helper", idx, <<user.username>>))
    /\ pc' = "patch"
    /\ UNCHANGED <<client, calls, typed_text, dry_run, careful, api_users,
                   api_detail, lifecycle, fs0, users, idx, user_detailed>>

\* client.patch(user["url"], data={"lifecycle_state": "NORMAL"}) returns: the
\* portal applied it (2xx) or refused it (the response is not looked at)
Patch ==
    /\ pc = "patch"
    /\ \E answer \in {"applied", "refused"} :
         lifecycle' = IF answer = "applied"
                      THEN [lifecycle EXCEPT ![user.url] = "NORMAL"]
                      ELSE lifecycle
    /\ log' = Append(log, Event("patch", idx, user.url))
    /\ NextIteration
    /\ UNCHANGED <<client, calls, typed_text, dry_run, careful, api_users,
                   api_detail, fs, fs0, users>>

(***************************************************************************)
(* Calls that raise.  execute() catches nothing, so the run ends there.    *)
(***************************************************************************)
Raise(event) ==
    /\ pc' = "raised"
    /\ log' = Append(log, event)
    /\ UNCHANGED <<client, calls, typed_text, dry_run, careful, api_users,
                   api_detail, lifecycle, fs0, users, idx, user_detailed>>

\* the list request raises (transport error, or a body that is not JSON)
ListUsersRaises ==
    /\ pc = "list"
    /\ Raise(Event("get_list_raised", 0, <<>>))
    /\ UNCHANGED fs

\* the detail request raises (transport error), response.json() raises (a
\* body that is not JSON), or the body lacks "account", "homeDirectory" or
\* "username" (as the body of an error answer does): a KeyError
FetchDetailRaises ==
    /\ pc = "loop"
    /\ idx <= Len(users)
    /\ Raise(Event("get_detail_raised", idx, user.url))
    /\ UNCHANGED fs

\* shutil.rmtree(..., ignore_errors=True): a removal that failed part-way is
\* taken for done and the helper and the PATCH follow
RmtreeRaises_Ignored ==
    /\ pc = "main"
    /\ ~dry_run
    /\ \E gone \in SUBSET (Subtree(home_directory) \ {home_directory}) :
         /\ \A q \in gone : Subtree(q) \subseteq gone
         /\ fs' = Remove(gone)
    /\ pc' = "helper"
    /\ log' = Append(log, Event("rmtree_raised", idx, home_directory))
    /\ UNCHANGED <<client, calls, typed_text, dry_run, careful, api_users,
                   api_detail, lifecycle, fs0, users, idx, user_detailed>>

\* shutil.rmtree raises part-way: entries below the directory may be gone
\* already, the directory itself is still there
RmtreeRaises ==
    /\ pc = "main"
    /\ ~dry_run
    /\ \E gone \in SUBSET (Subtree(home_directory) \ {home_directory}) :
         /\ \A q \in gone : Subtree(q) \subseteq gone
         /\ fs' = Remove(gone)
    /\ Raise(Event("rmtree_raised", idx, home_directory))

\* subprocess.run raises: the helper could not be started
HelperRaises ==
    /\ pc = "helper"
    /\ Raise(Event("mkhomedir_helper_raised", idx, <<user.username>>))
    /\ UNCHANGED fs

\* client.patch raises (transport error)
PatchRaises ==
    /\ pc = "patch"
    /\ Raise(Event("patch_raised", idx, user.url))
    /\ UNCHANGED fs

Next ==
    \/ GetClient
    \/ ListUsers
    \/ Finish
    \/ FetchDetail
    \/ Check
    \/ ConfirmNotCareful
    \/ ConfirmCareful
    \/ DryRun
    \/ Rmtree
    \/ Helper
    \/ Patch
    \/ ListUsersRaises
    \/ FetchDetailRaises
    \/ RmtreeRaises
    \/ HelperRaises
    \/ PatchRaises

Spec == Init /\ [][Next]_vars

TypeOK ==
    /\ pc \in {"start", "list", "loop", "check", "confirm", "main", "helper", "patch",
               "done", "aborted", "raised"}
    /\ idx \in 0..(Len(users) + 1)
    /\ client.id \in 0..(MaxClientCalls + 1)
    /\ calls \in 0..(MaxClientCalls + 1)
    /\ typed_text \in Typed \cup {""}

(***************************************************************************)
(* cli.py: cleanup_training_accounts calls execute() and catches nothing.  *)
(* click's standalone mode answers click.Abort with "Aborted!" and exit    *)
(* status 1; any other exception leaves the interpreter with a traceback   *)
(* and exit status 1; a return ends with status 0.                         *)
(***************************************************************************)
ExitStatusOf(end) == IF end = "done" THEN 0 ELSE 1

(***************************************************************************)
(* One command object used more than once: get_authenticated_client is     *)
(* also called outside execute(), before it starts or after it has ended.  *)
(***************************************************************************)
OtherCall ==
    /\ pc \in {"start", "done", "raised", "aborted"}
    /\ calls < MaxClientCalls
    /\ \E fetched \in BOOLEAN : get_authenticated_client(fetched)
    /\ UNCHANGED <<typed_text, dry_run, careful, api_users, api_detail,
                   lifecycle, fs, fs0, pc, users, idx, user_detailed>>

InitAuth == Init /\ Len(api_users) <= 1

NextAuth == Next \/ OtherCall

SpecAuth == InitAuth /\ [][NextAuth]_vars

(***************************************************************************)
(* Preview, then the real thing: after a dry run has returned, the         *)
(* operator invokes the command again with --no-dry-run.  cli.py builds a  *)
(* new command object and calls execute() on it; the portal and the        *)
(* filesystem are what the dry run left.                                   *)
(***************************************************************************)
RunForReal ==
    /\ pc = "done"
    /\ dry_run
    /\ dry_run' = FALSE
    /\ client' = NoClient
    /\ calls' = 0
    /\ pc' = "start"
    /\ users' = <<>>
    /\ idx' = 0
    /\ user_detailed' = NoDetail
    /\ typed_text' = ""
    /\ log' = Append(log, Event("cli", 0, <<"--no-dry-run">>))
    /\ UNCHANGED <<careful, api_users, api_detail, lifecycle, fs, fs0>>

NextPreview == Next \/ RunForReal

SpecPreview == Init /\ [][NextPreview]_vars

(***************************************************************************)
(* The command invoked again after a run has ended (returned, raised or    *)
(* aborted), with the same options.  Nothing is kept between invocations:  *)
(* cli.py builds a new command object, and execute() asks the portal again *)
(* for the accounts that are AWAITING_CLEANUP now and looks at the         *)
(* filesystem as the earlier run left it.                                  *)
(***************************************************************************)
StillAwaiting(record) == lifecycle[record.url] = "AWAITING_CLEANUP"

Runs(l) == 1 + Cardinality({ n \in 1..Len(l) : l[n].op = "cli" })

RunAgain ==
    /\ pc \in {"done", "raised", "aborted"}
    /\ Runs(log) < MaxRuns
    /\ api_users' = SelectSeq(api_users, StillAwaiting)
    /\ fs0' = fs
    /\ client' = NoClient
    /\ calls' = 0
    /\ pc' = "start"
    /\ users' = <<>>
    /\ idx' = 0
    /\ user_detailed' = NoDetail
    /\ typed_text' = ""
    /\ log' = Append(log, Event("cli", 0, <<IF dry_run THEN "--dry-run"
                                                       ELSE "--no-dry-run">>))
    /\ UNCHANGED <<dry_run, careful, api_detail, lifecycle, fs>>

InitRerun == Init /\ Len(api_users) <= 1

NextRerun == Next \/ RunAgain

SpecRerun == InitRerun /\ [][NextRerun]_vars

(***************************************************************************)
(* Vocabulary of the properties                                            *)
(***************************************************************************)
\* calls that change the filesystem or the portal, returned or raised
MutationOps == {"rmtree", "rmtree_raised",
                "mkhomedir_helper", "mkhomedir_helper_raised",
                "patch", "patch_raised"}

\* positions in the log of the events of operation kinds ops for candidate k
At(l, ops, k) == { n \in 1..Len(l) : l[n].op \in ops /\ l[n].i = k }

Mutations(l) == { n \in 1..Len(l) : l[n].op \in MutationOps }

Positions == 1..Len(users)

\* the portal's detail record of the candidate at position k
DetailOf(k) == api_detail[users[k].url]

\* home_dir_root / <username of the list record>
ExpectedHome(k) == Join(home_dir_folder, users[k].username)

\* the username starts with t, r, a, i, n
IsTrainName(name) ==
    /\ Len(Chars(name)) >= 5
    /\ \A c \in 1..5 : Chars(name)[c] = <<"t", "r", "a", "i", "n">>[c]

\* candidate k has been taken up by the loop and left again
Processed(k) == idx > k

(***************************************************************************)
(* C1: a candidate whose reported home directory is not                    *)
(* home_dir_root/<username of its list record> sees no removal, no helper  *)
(* run and no PATCH; every directory removed is home_dir_root/<username of *)
(* the list record being processed>.                                       *)
(***************************************************************************)
C1_NoMutationOnListPathMismatch ==
    \A n \in Mutations(log) :
        LET k == log[n].i
        IN  /\ Path(DetailOf(k).homeDirectory) = ExpectedHome(k)
            /\ log[n].op = "rmtree" => log[n].arg = ExpectedHome(k)

(***************************************************************************)
(* C2: a candidate whose list username does not start with "train" sees   *)
(* no removal, no helper run and no PATCH, in any mode; once it has been   *)
(* processed the "does not start with train" line has been logged for it.  *)
(***************************************************************************)
C2_NoMutationForNonTraining ==
    /\ \A n \in Mutations(log) : IsTrainName(users[log[n].i].username)
    /\ \A k \in Positions :
         (Processed(k) /\ ~IsTrainName(users[k].username))
            => /\ At(log, {"log_not_training"}, k) # {}
               /\ At(log, {"prompt", "dry_run_move"}, k) = {}

\* a real, unprompted run has finished over a non-training list record whose
\* detail record names a training account with a matching, existing home
C2_Witness ==
    /\ pc = "done"
    /\ ~dry_run
    /\ ~careful
    /\ \E k \in Positions :
         /\ ~IsTrainName(users[k].username)
         /\ IsTrainName(DetailOf(k).username)
         /\ Path(DetailOf(k).homeDirectory)
              = Join(home_dir_folder, DetailOf(k).username)
         /\ Path(DetailOf(k).homeDirectory) \in DOMAIN fs0

\* what C3 asks of one step of the run
C3_Step ==
    /\ (/\ pc = "check"
        /\ ~(/\ home_directory_constructed \in DOMAIN fs
             /\ fs[home_directory_constructed] = "dir"))
         => /\ pc' = "loop"
            /\ idx' = idx + 1
            /\ fs' = fs
            /\ lifecycle' = lifecycle
            /\ Mutations(log') = Mutations(log)
    /\ idx' >= idx
    /\ \A n \in Mutations(log') \ Mutations(log) :
         /\ log'[n].i = idx
         /\ pc \in {"main", "helper", "patch"}
    /\ (fs' # fs \/ lifecycle' # lifecycle) => pc \in {"main", "helper", "patch"}
    /\ (pc' = "patch" /\ pc # "patch") => pc = "helper"
    /\ (pc' = "helper" /\ pc # "helper") => pc = "main"
    /\ (pc' = "main" /\ pc # "main") => pc = "confirm"
    /\ (pc' = "confirm" /\ pc # "confirm") => pc = "check"

(***************************************************************************)
(* C3: when the home path computed for the candidate is not a directory at *)
(* the time of the check, the check step ends the candidate's processing   *)
(* with nothing removed, no helper run and no PATCH; a candidate is never  *)
(* taken up again, and removal, helper and PATCH happen only for the       *)
(* current candidate after it passed the check and the gate.               *)
(***************************************************************************)
C3_NoMutationWhenDirectoryMissing == [][C3_Step]_vars

\* a real run has finished over a training candidate whose reported path is
\* the expected one and is taken by a plain file
C3_Witness ==
    /\ pc = "done"
    /\ ~dry_run
    /\ \E k \in Positions :
         /\ IsTrainName(users[k].username)
         /\ DetailOf(k).username = users[k].username
         /\ Path(DetailOf(k).homeDirectory) = ExpectedHome(k)
         /\ ExpectedHome(k) \in DOMAIN fs0
         /\ fs0[ExpectedHome(k)] = "file"
         /\ At(log, {"log_not_directory"}, k) # {}

(***************************************************************************)
(* Vocabulary of the properties, continued                                 *)
(***************************************************************************)
AnsweredYes   == {"yes"}
AnsweredSkip  == {"skip"}
AnsweredAbort == {"abort"}

\* positions in log l of the prompts answered with one of `answers`
PromptsAnswered(l, answers) ==
    { n \in 1..Len(l) : l[n].op = "prompt" /\ l[n].arg[1] \in answers }

\* the list and detail records of candidate k agree on the username, it is a
\* training username, the reported home is home_dir_root/username and was a
\* directory when the run started
EligibleAtStart(k) ==
    /\ IsTrainName(users[k].username)
    /\ DetailOf(k).username = users[k].username
    /\ Path(DetailOf(k).homeDirectory) = ExpectedHome(k)
    /\ ExpectedHome(k) \in DOMAIN fs0
    /\ fs0[ExpectedHome(k)] = "dir"

\* no earlier candidate's removal took the home of candidate k
NotRemovedEarlier(k) ==
    \A n \in 1..Len(log) :
        (log[n].op = "rmtree" /\ log[n].i < k) => log[n].arg # ExpectedHome(k)

\* the gate let candidate k through
Proceeded(k) ==
    \/ ~careful
    \/ \E n \in PromptsAnswered(log, AnsweredYes) : log[n].i = k

DryRunOps == {"dry_run_move", "dry_run_create", "dry_run_update"}

\* the three preview notices of candidate k, adjacent and in the order of the
\* real steps, on the reported path and the list username
ThreeNotices(k) ==
    \E n \in 1..Len(log) :
        /\ n + 2 <= Len(log)
        /\ log[n] = Event("dry_run_move", k, Path(DetailOf(k).homeDirectory))
        /\ log[n + 1] = Event("dry_run_create", k, <<users[k].username>>)
        /\ log[n + 2] = Event("dry_run_update", k, <<users[k].username>>)
        /\ At(log, DryRunOps, k) = {n, n + 1, n + 2}

(***************************************************************************)
(* C4: with dry_run set, in every state of the run the filesystem is the   *)
(* pre-run filesystem, every account is still AWAITING_CLEANUP and no      *)
(* removal, helper run or PATCH was attempted; a processed candidate that  *)
(* is eligible and was let through by the gate got exactly three preview   *)
(* notices (move, create, update), and no candidate got any other number.  *)
(***************************************************************************)
C4_DryRunChangesNothing ==
    dry_run =>
        /\ fs = fs0
        /\ \A u \in DOMAIN lifecycle : lifecycle[u] = "AWAITING_CLEANUP"
        /\ Mutations(log) = {}
        /\ \A k \in Positions :
             /\ (Processed(k) /\ EligibleAtStart(k) /\ Proceeded(k))
                   => ThreeNotices(k)
             /\ At(log, DryRunOps, k) # {} => ThreeNotices(k)

\* a careful dry run has finished over an eligible candidate answered yes
C4_Witness ==
    /\ dry_run
    /\ careful
    /\ pc = "done"
    /\ \E k \in Positions :
         EligibleAtStart(k) /\ Proceeded(k) /\ ThreeNotices(k)

(***************************************************************************)
(* C5: once a prompt has been answered abort for the candidate at position *)
(* i, the run is over: nothing but the abort notice follows the prompt, no *)
(* removal, helper run or PATCH was attempted for candidate i, and the log *)
(* holds no fetch, check, prompt or mutation of a later candidate.         *)
(***************************************************************************)
C5_AbortHalts ==
    \A n \in PromptsAnswered(log, AnsweredAbort) :
        /\ pc = "aborted"
        /\ idx = log[n].i
        /\ Len(log) = n + 1
        /\ log[n + 1].op = "echo_aborted"
        /\ At(log, MutationOps, log[n].i) = {}
        /\ \A m \in 1..Len(log) : log[m].i <= log[n].i

\* a real careful run aborted with a candidate still to come
C5_Witness ==
    /\ pc = "aborted"
    /\ careful
    /\ ~dry_run
    /\ idx < Len(users)
    /\ PromptsAnswered(log, AnsweredAbort) # {}

(***************************************************************************)
(* C6: after the destructive step the contents of the home directory are   *)
(* under home_dir_root/.fast-remove.                                       *)
(***************************************************************************)
fast_remove == Join(home_dir_folder, ".fast-remove")

C6_RemovalRelocatesIntoFastRemove ==
    (\E n \in 1..Len(log) : log[n].op = "rmtree")
        => \E q \in DOMAIN fs : IsPrefix(fast_remove, q) /\ q # fast_remove

(***************************************************************************)
(* C7: in real mode the steps of a candidate are the removal of the        *)
(* reported home directory, then the helper with the list username, then   *)
(* the PATCH of the candidate's url, each at most once; a processed        *)
(* candidate that was removed got all three, an eligible candidate the     *)
(* gate let through got them, and no step of a candidate comes after a     *)
(* step of a later candidate.                                              *)
(***************************************************************************)
RemovalsOf(k) == At(log, {"rmtree", "rmtree_raised"}, k)
HelpersOf(k)  == At(log, {"mkhomedir_helper", "mkhomedir_helper_raised"}, k)
PatchesOf(k)  == At(log, {"patch", "patch_raised"}, k)

C7_StepsInOrder ==
    /\ \A n, m \in Mutations(log) : n < m => log[n].i <= log[m].i
    /\ \A k \in Positions :
         /\ Cardinality(RemovalsOf(k)) <= 1
         /\ Cardinality(HelpersOf(k)) <= 1
         /\ Cardinality(PatchesOf(k)) <= 1
         /\ \A r \in RemovalsOf(k) :
              log[r].arg = Path(DetailOf(k).homeDirectory)
         /\ \A h \in HelpersOf(k) :
              /\ log[h].arg = <<users[k].username>>
              /\ \E r \in RemovalsOf(k) : r < h /\ log[r].op = "rmtree"
         /\ \A p \in PatchesOf(k) :
              /\ log[p].arg = users[k].url
              /\ \E h \in HelpersOf(k) : h < p /\ log[h].op = "mkhomedir_helper"
         /\ (Processed(k) /\ RemovalsOf(k) # {})
               => At(log, {"patch"}, k) # {}
         /\ (Processed(k) /\ ~dry_run /\ EligibleAtStart(k) /\ Proceeded(k)
               /\ NotRemovedEarlier(k))
               => At(log, {"rmtree"}, k) # {}

\* a real run has finished with two candidates cleaned one after the other
C7_Witness ==
    /\ pc = "done"
    /\ ~dry_run
    /\ \E j, k \in Positions :
         /\ j < k
         /\ At(log, {"patch"}, j) # {}
         /\ At(log, {"patch"}, k) # {}

(***************************************************************************)
(* C8: a real, unprompted run over candidates that all are eligible, once  *)
(* it has returned, has for every candidate: nothing of the tree that was  *)
(* at the home path left there (a directory there is the empty home the    *)
(* helper made after the removal), exactly one helper run, with the        *)
(* candidate's username, and exactly one PATCH, to the candidate's url;    *)
(* and no helper run or PATCH besides these.                               *)
(***************************************************************************)
\* what was below path p when the run started
Subtree0(p) == { q \in DOMAIN fs0 : IsPrefix(p, q) }

C8_AllEligibleAllCleaned ==
    (/\ pc = "done"
     /\ ~dry_run
     /\ ~careful
     /\ \A k \in Positions : EligibleAtStart(k))
        => /\ \A k \in Positions :
                /\ \A q \in Subtree0(ExpectedHome(k)) \ {ExpectedHome(k)} :
                      q \notin DOMAIN fs
                /\ ExpectedHome(k) \in DOMAIN fs
                      => \E r \in At(log, {"rmtree"}, k) :
                         \E h \in At(log, {"mkhomedir_helper"}, k) : r < h
                /\ \E h \in 1..Len(log) :
                      { n \in 1..Len(log) :
                          /\ log[n].op = "mkhomedir_helper"
                          /\ log[n].arg = <<users[k].username>> } = {h}
                /\ \E p \in 1..Len(log) :
                      { n \in 1..Len(log) :
                          /\ log[n].op = "patch"
                          /\ log[n].arg = users[k].url } = {p}
           /\ Cardinality({ n \in 1..Len(log) : log[n].op = "mkhomedir_helper" })
                = Len(users)
           /\ Cardinality({ n \in 1..Len(log) : log[n].op = "patch" })
                = Len(users)

\* such a run over two candidates has returned
C8_Witness ==
    /\ pc = "done"
    /\ ~dry_run
    /\ ~careful
    /\ Len(users) >= 2
    /\ \A k \in Positions : EligibleAtStart(k)

\* the log lines of the three failed checks
VerdictOps == {"log_not_training", "log_path_mismatch", "log_not_directory"}

\* what C9 asks of one step of the run
C9_Step ==
    /\ (PromptsAnswered(log', AnsweredSkip) \ PromptsAnswered(log, AnsweredSkip) # {})
         => /\ fs' = fs
            /\ lifecycle' = lifecycle
            /\ Mutations(log') = Mutations(log)
            /\ pc' = "loop"
            /\ idx' = idx + 1
            /\ users' = users
            /\ log'[Len(log')] = Event("log_skip", idx, <<users[idx].username>>)
    /\ \A n \in PromptsAnswered(log', AnsweredSkip) :
         At(log', MutationOps, log'[n].i) = {}
    /\ (pc = "loop" /\ idx <= Len(users))
         => /\ pc' \in {"check", "raised"}
            /\ log'[Len(log')].op \in {"get_detail", "get_detail_raised"}
            /\ log'[Len(log')].i = idx
    /\ (pc' = "done" /\ careful)
         => \A k \in 1..Len(users') :
              /\ At(log', {"get_detail"}, k) # {}
              /\ At(log', VerdictOps \cup {"prompt"}, k) # {}

(***************************************************************************)
(* C9: the step in which a prompt is answered skip changes neither the     *)
(* filesystem nor the portal and attempts no removal, helper run or PATCH; *)
(* it moves the loop to the next list record; no removal, helper run or    *)
(* PATCH is ever attempted for the skipped candidate; from the loop with a *)
(* record left the only step is the fetch of that record; and a careful    *)
(* run returns only with every candidate fetched and evaluated.            *)
(***************************************************************************)
C9_SkipLeavesUntouchedAndContinues == [][C9_Step]_vars

\* a real careful run has returned after a skip at a position that was not
\* the last, the skipped home still as it was
C9_Witness ==
    /\ pc = "done"
    /\ careful
    /\ ~dry_run
    /\ \E n \in PromptsAnswered(log, AnsweredSkip) :
         /\ log[n].i < Len(users)
         /\ EligibleAtStart(log[n].i)
         /\ At(log, {"get_detail"}, log[n].i + 1) # {}
         /\ \A q \in Subtree0(ExpectedHome(log[n].i)) : q \in DOMAIN fs

\* everything the gate prints, asks or causes to be logged
GateOps == {"echo_user", "echo_home", "prompt", "log_skip", "echo_aborted"}

\* what C10 asks of one step of the run
C10_Step ==
    ~careful =>
        /\ { n \in 1..Len(log') : log'[n].op \in GateOps } = {}
        /\ pc' # "aborted"
        /\ pc = "confirm" => (pc' = "main" /\ idx' = idx /\ log' = log)
        /\ \A k \in 1..Len(users') :
             (idx' > k /\ At(log', VerdictOps, k) = {})
                => At(log', {"rmtree", "dry_run_move"}, k) # {}

(***************************************************************************)
(* C10: with careful unset nothing of the gate is ever printed or asked    *)
(* (zero prompt invocations), the run is never aborted and no candidate is *)
(* skipped by the gate: the gate step goes straight to the main branch,    *)
(* and every processed candidate without a failed check reached it.        *)
(***************************************************************************)
C10_NotCarefulNeverPrompts == [][C10_Step]_vars

\* an unprompted real run has returned with a candidate cleaned
C10_Witness ==
    /\ pc = "done"
    /\ ~careful
    /\ ~dry_run
    /\ \E k \in Positions : At(log, {"patch"}, k) # {}

\* execute() has returned or has been left by an exception
RunEnded == pc \in {"done", "raised", "aborted"}

\* shutil.rmtree returned for candidate k and the loop is done with k
RemovedAndOver(k) ==
    /\ At(log, {"rmtree"}, k) # {}
    /\ Processed(k) \/ RunEnded

(***************************************************************************)
(* C11: in a run that changes things, once shutil.rmtree has returned for  *)
(* a candidate and the candidate is over, a PATCH has been issued for it   *)
(* whatever the helper did (exit zero, exit non-zero, not started); a      *)
(* helper that could not be started never ends the run.                    *)
(***************************************************************************)
C11_PatchWhateverTheHelperDoes ==
    /\ \A k \in Positions : RemovedAndOver(k) => PatchesOf(k) # {}
    /\ \A n \in 1..Len(log) :
         log[n].op = "mkhomedir_helper_raised" => pc # "raised"

(***************************************************************************)
(* C12: a remote call that fails for one candidate (the detail request or  *)
(* the PATCH raises, or the detail body cannot be used) does not end the   *)
(* run: the run is not left by that exception, and once the run has ended  *)
(* every later candidate of the list has had its detail requested.         *)
(***************************************************************************)
C12_RemoteFailureConfined ==
    \A n \in 1..Len(log) :
        log[n].op \in {"get_detail_raised", "patch_raised"}
            => /\ pc # "raised"
               /\ RunEnded =>
                    \A k \in Positions :
                        k > log[n].i
                            => At(log, {"get_detail", "get_detail_raised"}, k)
                                  # {}

\* what C13 asks of one step of the run
C13_Step ==
    (/\ At(log', {"rmtree_raised"}, idx) # {}
     /\ At(log, {"rmtree_raised"}, idx) = {})
        => /\ fs' = fs
           /\ lifecycle' = lifecycle
           /\ At(log', {"mkhomedir_helper", "mkhomedir_helper_raised"}, idx)
                = {}
           /\ At(log', {"patch", "patch_raised"}, idx) = {}

(***************************************************************************)
(* C13: the step in which the removal of a home directory fails leaves the *)
(* directory and everything in it as it was before the step (nothing is    *)
(* partly gone), and neither the helper nor the PATCH has been issued for  *)
(* that candidate.                                                         *)
(***************************************************************************)
C13_FailedRemovalChangesNothing == [][C13_Step]_vars

(***************************************************************************)
(* C14: a PATCH the portal answers with a non-2xx status is not taken for  *)
(* a success: a candidate whose processing ended with a returned PATCH,    *)
(* the way a successful cleanup ends, has lifecycle_state NORMAL at the    *)
(* portal.                                                                 *)
(***************************************************************************)
C14_RefusedPatchIsNotSuccess ==
    \A k \in Positions :
        (Processed(k) /\ At(log, {"patch"}, k) # {})
            => lifecycle[users[k].url] = "NORMAL"

ListRequests ==
    { n \in 1..Len(log) : log[n].op \in {"get_list", "get_list_raised"} }
DetailRequests == { n \in 1..Len(log) :
                      log[n].op \in {"get_detail", "get_detail_raised"} }

\* what get_authenticated_client leaves in the log
ClientOps == {"OAuth2Client", "fetch_token", "fetch_token_raised",
              "log_authenticated"}

(***************************************************************************)
(* C15: the list is requested at most once and, once the loop runs,        *)
(* exactly once, with user_type=TRAINING, lifecycle_state=AWAITING_CLEANUP *)
(* and is_active=false; each candidate's detail is requested at most once, *)
(* at its own url, in list order and leaving no earlier candidate out; no  *)
(* candidate is taken up again once the loop has moved past it; for an     *)
(* empty list nothing follows the list request.                            *)
(***************************************************************************)
C15_EachFetchedOnce ==
    /\ Cardinality(ListRequests) <= 1
    /\ pc \notin {"start", "list", "raised"} => Cardinality(ListRequests) = 1
    /\ \A n \in ListRequests :
         /\ log[n].op = "get_list"
              => log[n].arg = <<"user_type=TRAINING",
                                "lifecycle_state=AWAITING_CLEANUP",
                                "is_active=false">>
         /\ \A m \in 1..Len(log) : log[m].i >= 1 => n < m
    /\ \A n \in DetailRequests :
         /\ log[n].i \in Positions
         /\ log[n].arg = users[log[n].i].url
         /\ \A j \in 1..(log[n].i - 1) :
              \E m \in DetailRequests : m < n /\ log[m].i = j
    /\ \A n, m \in DetailRequests : log[n].i = log[m].i => n = m
    /\ \A n \in 1..(Len(log) - 1) :
         log[n].i >= 1 => log[n].i <= log[n + 1].i
    /\ \A n \in 1..Len(log) : log[n].i >= 1 => log[n].i <= idx
    /\ (api_users = <<>>)
         => \A n \in 1..Len(log) :
              log[n].op \in ClientOps \cup {"get_list", "get_list_raised"}

\* a run over two candidates has returned, both details requested
C15_Witness ==
    /\ pc = "done"
    /\ Len(users) = 2
    /\ \A k \in Positions : At(log, {"get_detail"}, k) # {}

\* the log of the dry run and the log of the real run that followed it
Invocations == { n \in 1..Len(log) : log[n].op = "cli" }
SecondAt == CHOOSE n \in Invocations : TRUE
FirstRun == SubSeq(log, 1, SecondAt - 1)
SecondRun == SubSeq(log, SecondAt + 1, Len(log))

IsNotice(e) == e.op \in DryRunOps
IsStep(e) == e.op \in {"rmtree", "mkhomedir_helper", "patch"}
IsPrompt(e) == e.op = "prompt"

\* notice a of the dry run announces step b of the real run
Announces(a, b) ==
    /\ a.i = b.i
    /\ \/ a.op = "dry_run_move" /\ b.op = "rmtree" /\ a.arg = b.arg
       \/ a.op = "dry_run_create" /\ b.op = "mkhomedir_helper" /\ a.arg = b.arg
       \/ /\ a.op = "dry_run_update"
          /\ b.op = "patch"
          /\ a.arg = <<api_users[b.i].username>>
          /\ b.arg = api_users[b.i].url

\* the two runs line up, notice by step
NoticesMatchSteps ==
    LET notices == SelectSeq(FirstRun, IsNotice)
        steps   == SelectSeq(SecondRun, IsStep)
    IN  /\ Len(notices) = Len(steps)
        /\ \A j \in 1..Len(notices) : Announces(notices[j], steps[j])

\* a dry run, then a real run with the same answers that returned
PreviewedRunReturned ==
    /\ Invocations # {}
    /\ pc = "done"
    /\ SelectSeq(FirstRun, IsPrompt) = SelectSeq(SecondRun, IsPrompt)

(***************************************************************************)
(* C16: when a dry run is followed by a real run on the same inputs with   *)
(* the same prompt answers, the notices of the dry run and the steps of    *)
(* the real run correspond one to one and in order, each notice naming the *)
(* kind of step (move to .fast-remove, empty home created, update to       *)
(* NORMAL) on the same path or username: in particular what was announced  *)
(* as a move to .fast-remove has arrived there.                            *)
(***************************************************************************)
C16_DryRunPreviewsRealRun ==
    PreviewedRunReturned
        => /\ NoticesMatchSteps
           /\ (\E n \in 1..Len(SecondRun) : SecondRun[n].op = "rmtree")
                => \E q \in DOMAIN fs :
                       IsPrefix(fast_remove, q) /\ q # fast_remove

(***************************************************************************)
(* C17: a run the operator aborted at the prompt ends with an exit status  *)
(* that is not zero and is not the exit status of a run ended by an        *)
(* exception.                                                              *)
(***************************************************************************)
C17_AbortStatusDistinct ==
    pc = "aborted"
        => /\ ExitStatusOf(pc) # 0
           /\ ExitStatusOf(pc) # ExitStatusOf("raised")

FetchTokenCalls ==
    { n \in 1..Len(log) : log[n].op \in {"fetch_token", "fetch_token_raised"} }

(***************************************************************************)
(* C18: however often get_authenticated_client has been called on one      *)
(* command object, one OAuth2Client has been constructed and fetch_token   *)
(* has been called once, with the token endpoint and                       *)
(* grant_type=client_credentials, and self.client, which every call        *)
(* returns, is that first client; before the first call there is none.     *)
(***************************************************************************)
C18_ClientMadeOnce ==
    /\ calls = 0
         => (client = NoClient /\ Constructed(log) = 0 /\ FetchTokenCalls = {})
    /\ calls >= 1
         => /\ Constructed(log) = 1
            /\ Cardinality(FetchTokenCalls) = 1
            /\ client.id = 1
    /\ \A n \in FetchTokenCalls :
         log[n].arg = <<"token_endpoint", "grant_type=client_credentials">>

\* three calls on one object, the token fetched
C18_Witness ==
    /\ calls >= 3
    /\ client.id = 1
    /\ client.token

\* the events a step has added to the log
Added == { n \in 1..Len(log') : n > Len(log) }

\* what C19 asks of one step of the run
C19_Step ==
    /\ pc = "confirm"
         => /\ fs' = fs
            /\ lifecycle' = lifecycle
            /\ api_users' = api_users
            /\ api_detail' = api_detail
            /\ \A n \in Added : log'[n].op \in GateOps
    /\ (pc = "confirm" /\ careful)
         => /\ typed_text' \in Typed
            /\ typed_text' \in {"yes", "YES"} => (pc' = "main" /\ idx' = idx)
            /\ typed_text' \in {"skip", "Skip"}
                 => /\ pc' = "loop"
                    /\ idx' = idx + 1
                    /\ log'[Len(log')]
                         = Event("log_skip", idx, <<users[idx].username>>)
            /\ typed_text' \in {"abort", "ABORT"} => pc' = "aborted"
    /\ (careful /\ \E n \in Added : log'[n].op \in MutationOps \cup DryRunOps)
         => typed_text \in {"yes", "YES"}
    /\ (careful /\ pc = "main") => pc' \in {"helper", "loop", "raised"}

(***************************************************************************)
(* C19: with careful set, for a candidate that passed the three checks,    *)
(* the main branch is entered, and its steps are taken, if and only if the *)
(* line typed at the prompt is yes; skip makes the loop log the skip and   *)
(* move on, abort ends the run; each in either letter case.  The gate step *)
(* itself changes neither the filesystem nor the portal and issues no      *)
(* request.                                                                *)
(***************************************************************************)
C19_GateDecides == [][C19_Step]_vars

\* an upper-case YES let the real removal happen
C19_Witness ==
    /\ careful
    /\ ~dry_run
    /\ typed_text = "YES"
    /\ pc = "helper"

\* what C20 asks of one step of the run
C20_Step ==
    pc = "check"
      => LET name == users[idx].username
             d    == DetailOf(idx)
             hd   == Path(d.homeDirectory)
             verdict ==
                 IF ~IsTrainName(name) THEN "log_not_training"
                 ELSE IF hd # Join(home_dir_folder, d.username)
                 THEN "log_path_mismatch"
                 ELSE IF ~(hd \in DOMAIN fs /\ fs[hd] = "dir")
                 THEN "log_not_directory"
                 ELSE "eligible"
         IN  /\ verdict = "eligible"
                  => (pc' = "confirm" /\ idx' = idx /\ log' = log)
             /\ verdict # "eligible"
                  => /\ log' = Append(log, Event(verdict, idx, <<name>>))
                     /\ pc' = "loop"
                     /\ idx' = idx + 1
             /\ fs' = fs
             /\ lifecycle' = lifecycle
             /\ Cardinality(At(log', VerdictOps, idx)) <= 1

(***************************************************************************)
(* C20: the check step gives each candidate one verdict, that of the first *)
(* check that fails in the order prefix, path equality, directory          *)
(* existence (prefix and path both failing: not a training account; path   *)
(* and existence both failing: path mismatch), and lets it on to the gate  *)
(* only when all three pass; the verdict is determined by the username,    *)
(* the reported home directory, home_dir_folder and whether the directory  *)
(* exists.                                                                 *)
(***************************************************************************)
C20_FirstFailingCheck == [][C20_Step]_vars

\* a candidate failing the prefix and the path check was logged as not a
\* training account, one failing the path check and without a directory as
\* a path mismatch
C20_Witness ==
    /\ pc = "done"
    /\ \E k \in Positions :
         /\ ~IsTrainName(users[k].username)
         /\ Path(DetailOf(k).homeDirectory)
              # Join(home_dir_folder, DetailOf(k).username)
         /\ At(log, {"log_not_training"}, k) # {}
    /\ \E k \in Positions :
         /\ Path(DetailOf(k).homeDirectory) \notin DOMAIN fs0
         /\ At(log, {"log_path_mismatch"}, k) # {}

\* what shows in the log that candidate k got past the three checks
PassedOps == {"prompt", "dry_run_move", "rmtree", "rmtree_raised"}

\* candidate k has been evaluated once: one detail request, and either one
\* verdict of a failed check or the steps that follow the checks
EvaluatedOnce(k) ==
    /\ Cardinality(At(log, {"get_detail"}, k)) = 1
    /\ At(log, {"get_detail_raised"}, k) = {}
    /\ \/ Cardinality(At(log, VerdictOps, k)) = 1 /\ At(log, PassedOps, k) = {}
       \/ At(log, VerdictOps, k) = {} /\ At(log, PassedOps, k) # {}

(***************************************************************************)
(* C21: a candidate that fails a check never ends the run: a run that has  *)
(* ended by an exception or an abort did not end on a failed check, and a  *)
(* run that has returned (no abort, no failing call) has requested the     *)
(* detail of every candidate of the list and evaluated it exactly once,    *)
(* whatever the verdicts of the candidates before it.                      *)
(***************************************************************************)
C21_IneligibleNeverStopsRun ==
    /\ (pc \in {"raised", "aborted"} /\ log # <<>>)
         => log[Len(log)].op \notin VerdictOps
    /\ pc = "done" => \A k \in Positions : EvaluatedOnce(k)

\* a run has returned whose first candidate failed a check and whose second
\* was evaluated all the same
C21_Witness ==
    /\ pc = "done"
    /\ Len(users) = 2
    /\ At(log, VerdictOps, 1) # {}
    /\ EvaluatedOnce(2)

\* the three checks of the chain as they stand for the candidate of this
\* iteration
PassesChecksNow ==
    /\ IsTrainName(users[idx].username)
    /\ Path(DetailOf(idx).homeDirectory)
         = Join(home_dir_folder, DetailOf(idx).username)
    /\ Path(DetailOf(idx).homeDirectory) \in DOMAIN fs
    /\ fs[Path(DetailOf(idx).homeDirectory)] = "dir"

\* what C22 asks of one step of the run
C22_Step ==
    /\ (\E n \in Added : log'[n].op = "prompt")
         => /\ pc = "confirm"
            /\ PassesChecksNow
            /\ \A n \in Added : log'[n].op = "prompt" => log'[n].i = idx
            /\ At(log, {"prompt"}, idx) = {}
            /\ Cardinality(At(log', {"prompt"}, idx)) = 1
    /\ \A k \in 1..Len(users') :
         At(log', VerdictOps, k) # {} => At(log', GateOps, k) = {}

(***************************************************************************)
(* C22: a prompt is shown only in the gate step of a candidate that has    *)
(* just passed the prefix, path and directory checks, and at most once per *)
(* candidate; no candidate with the verdict of a failed check ever has a   *)
(* prompt, or any other output of the gate, in the log.                    *)
(***************************************************************************)
C22_PromptOnlyAfterChecks == [][C22_Step]_vars

\* a careful run has returned with one candidate prompted and another
\* turned away by a check
C22_Witness ==
    /\ pc = "done"
    /\ careful
    /\ \E k \in Positions : At(log, {"prompt"}, k) # {}
    /\ \E k \in Positions : At(log, VerdictOps, k) # {}

\* the position in the list of the account with url u, 0 before the list is
\* there
PositionOf(u) ==
    IF \E k \in Positions : users[k].url = u
    THEN CHOOSE k \in Positions : users[k].url = u
    ELSE 0

\* the requirements of a PATCH for candidate k that the log shows: no failed
\* check, the gate let it through, the run is not a dry run, and
\* shutil.rmtree has returned for the reported home directory before any
\* PATCH for k
PatchEarned(k) ==
    /\ ~dry_run
    /\ At(log, VerdictOps, k) = {}
    /\ IsTrainName(users[k].username)
    /\ Path(DetailOf(k).homeDirectory)
         = Join(home_dir_folder, DetailOf(k).username)
    /\ Proceeded(k)
    /\ At(log, {"log_skip", "echo_aborted"}, k) = {}
    /\ \E n \in At(log, {"rmtree"}, k) :
         /\ log[n].arg = Path(DetailOf(k).homeDirectory)
         /\ \A m \in PatchesOf(k) : n < m
    /\ At(log, {"rmtree_raised"}, k) = {}

(***************************************************************************)
(* C23: in every state of a run, an account whose lifecycle_state is       *)
(* NORMAL, and any candidate for which a PATCH has been issued, passed the *)
(* three checks earlier in the run, was let through by the gate, in a run  *)
(* that is not a dry run, and shutil.rmtree had returned for its reported  *)
(* home directory before the PATCH; no PATCH comes before or without the   *)
(* removal.                                                                *)
(***************************************************************************)
C23_PatchOnlyAfterRemoval ==
    /\ \A u \in DOMAIN lifecycle :
         lifecycle[u] = "NORMAL"
            => /\ PositionOf(u) # 0
               /\ At(log, {"patch"}, PositionOf(u)) # {}
               /\ PatchEarned(PositionOf(u))
    /\ \A k \in Positions : PatchesOf(k) # {} => PatchEarned(k)

\* a careful run has patched an account to NORMAL
C23_Witness ==
    /\ careful
    /\ \E u \in DOMAIN lifecycle : lifecycle[u] = "NORMAL"

\* where the last invocation starts in the log (0: there was only one)
LastStart ==
    IF \E n \in 1..Len(log) : log[n].op = "cli"
    THEN CHOOSE n \in 1..Len(log) :
            /\ log[n].op = "cli"
            /\ \A m \in 1..Len(log) : log[m].op = "cli" => m <= n
    ELSE 0

\* the url of the candidate the event at position n belongs to: that of the
\* last detail request before it
UrlAt(n) ==
    LET before == { m \in 1..n : log[m].op = "get_detail" }
    IN  IF before = {} THEN <<>>
        ELSE log[CHOOSE m \in before : \A o \in before : o <= m].arg

\* the accounts an earlier invocation took into its main branch, not in a
\* dry run: they had passed the checks and the gate
TakenUpEarlier ==
    { UrlAt(n) : n \in { m \in 1..LastStart :
                           log[m].op \in {"rmtree", "rmtree_raised"} } }

\* the last invocation has returned and in it no call failed: nothing
\* raised, nobody skipped, and every PATCH that returned was applied
CleanRunReturned ==
    /\ pc = "done"
    /\ LastStart # 0
    /\ \A n \in (LastStart + 1)..Len(log) :
         /\ log[n].op \notin {"log_skip", "fetch_token_raised"}
         /\ log[n].op = "patch" => lifecycle[log[n].arg] = "NORMAL"

(***************************************************************************)
(* C24: when an invocation in which no call failed has returned, every     *)
(* account that an earlier real invocation had taken up (it was eligible   *)
(* then) and that the earlier invocation left unfinished, by failing in    *)
(* the removal, after it, at the helper or at the PATCH, has               *)
(* lifecycle_state NORMAL: no such account is left AWAITING_CLEANUP.       *)
(***************************************************************************)
C24_RepeatedRunsConverge ==
    CleanRunReturned
        => \A u \in TakenUpEarlier : lifecycle[u] = "NORMAL"

\* what C25 asks of one step of the run
C25_Step ==
    (calls' = calls + 1 /\ client # NoClient)
        => /\ client'.token
           /\ ~client.token
                => \E n \in Added :
                      log'[n].op \in {"fetch_token", "fetch_token_raised"}

(***************************************************************************)
(* C25: a call of get_authenticated_client on a command object that        *)
(* already has a client returns a client whose token has been fetched; if  *)
(* the fetch of the first call failed, the later call fetches again        *)
(* instead of returning the client that was kept without a token.          *)
(***************************************************************************)
C25_NeverUnauthenticated == [][C25_Step]_vars

====
